---- MODULE Spec2Model ----
(***************************************************************************)
(* Model of the conversation core of the personal assistant:               *)
(*   core/conversation.py     ConversationHandler (process_message,        *)
(*                            _extract_intent_llm, the action handlers)    *)
(*   crud/crud_conversation.py  the history store adapter                  *)
(*   api/v1/endpoints/conversation.py  the /process endpoint               *)
(*                                                                         *)
(* Python strings are modelled as sequences of tokens, so that             *)
(* concatenation (f-strings), strip(), startswith()/endswith(), split()    *)
(* and json.loads()/json.dumps() are computed on them.                     *)
(***************************************************************************)
EXTENDS Integers, Sequences, FiniteSets, TLC

VARIABLES
    store,              \* rows of the conversations table, in creation order
    openai_key,         \* settings.OPENAI_API_KEY is configured
    pc,                 \* position of each request
    message,            \* request.text / message
    user_id,            \* current_user["sub"] / user_id
    history,            \* local `history` of process_message
    prompt,             \* the prompt of the last generate() call of the request
    llm_text,           \* llm_response.text of the resolution call
    conversation_handler, \* module global of the endpoint (lines 16-26)
    search_results,     \* local `search_results` of _handle_rag_query
    synth_text,         \* llm_response.text of the synthesis call
    resolved,           \* how _extract_intent_llm ended
    structured_output,  \* local `structured_output` of process_message
    result,             \* local `result` of process_message
    outcome,            \* how ConversationHandler.process_message ended
    http,               \* what the endpoint answered
    trace               \* the external calls of the request, in order

vars == <<store, openai_key, pc, message, user_id, history, prompt, llm_text,
          search_results, synth_text, conversation_handler, resolved, structured_output, result, outcome, http, trace>>

-----------------------------------------------------------------------------
(* Bounds *)

MaxInitRows == 2

Procs == {"r1", "r2"}
Users == {"u1", "u2"}

-----------------------------------------------------------------------------
(* Text: a Python str is a sequence of tokens *)

Lit(s) == [k |-> "lit", c |-> s]
WS == [k |-> "ws"]
FenceJson == [k |-> "fence_json"]
Fence == [k |-> "fence"]
JsonTok(v, fmt) == [k |-> "json", v |-> v, fmt |-> fmt]
ListRepr(xs) == [k |-> "repr", items |-> xs]
Txt(s) == <<Lit(s)>>

(* JSON values *)
JStr(text) == [t |-> "str", s |-> text]
JNum(n) == [t |-> "num", n |-> n]
JNull == [t |-> "null"]
JList(xs) == [t |-> "list", items |-> xs]
JObj(o) == [t |-> "obj", o |-> o]

RECURSIVE lstrip(_)
lstrip(text) ==
    IF text # <<>> /\ Head(text) = WS THEN lstrip(Tail(text)) ELSE text

RECURSIVE rstrip(_)
rstrip(text) ==
    IF text # <<>> /\ text[Len(text)] = WS
    THEN rstrip(SubSeq(text, 1, Len(text) - 1))
    ELSE text

strip(text) == rstrip(lstrip(text))

LastN(s, n) == IF Len(s) <= n THEN s ELSE SubSeq(s, Len(s) - n + 1, Len(s))

(* json.loads: the text is one JSON document, whitespace around it allowed *)
json_loads(text) ==
    LET s == strip(text)
    IN  IF Len(s) = 1 /\ s[1].k = "json"
        THEN [ok |-> TRUE, v |-> s[1].v]
        ELSE [ok |-> FALSE, v |-> JNull]

(* json.dumps: one document in the canonical formatting *)
json_dumps(v) == <<JsonTok(v, "canon")>>

DictToJson(d) == JObj([f \in DOMAIN d |-> JStr(d[f])])

-----------------------------------------------------------------------------
(* Schema registry: the pydantic models of core/conversation.py *)

possible_types ==
    <<"RagQueryInput", "SendEmailInput", "ScheduleMeetingInput",
      "GeneralChatOutput", "UnknownOutput">>

(* p_type.model_fields["action"].default *)
ActionDefault(p_type) ==
    CASE p_type = "RagQueryInput" -> "query_rag"
      [] p_type = "SendEmailInput" -> "send_email"
      [] p_type = "ScheduleMeetingInput" -> "schedule_meeting"
      [] p_type = "GeneralChatOutput" -> "general_chat"
      [] p_type = "UnknownOutput" -> "unknown"

(* the declared fields of each model other than the action tag *)
FieldTypes(p_type) ==
    CASE p_type = "RagQueryInput" -> [query |-> "str"]
      [] p_type = "SendEmailInput" ->
            [recipient |-> "str", subject |-> "str", body |-> "str"]
      [] p_type = "ScheduleMeetingInput" ->
            [participants |-> "list_str", date_time |-> "str",
             platform |-> "opt_str"]
      [] p_type = "GeneralChatOutput" -> [response |-> "str"]
      [] p_type = "UnknownOutput" -> [reason |-> "str"]

(* pydantic's check of one field of a parsed JSON object o *)
FieldOk(o, f, ty) ==
    CASE ty = "str" -> f \in DOMAIN o /\ o[f].t = "str"
      [] ty = "list_str" ->
            /\ f \in DOMAIN o
            /\ o[f].t = "list"
            /\ \A i \in 1..Len(o[f].items) : o[f].items[i].t = "str"
      [] ty = "opt_str" -> f \notin DOMAIN o \/ o[f].t \in {"str", "null"}

(* mutant: only the first element of a list field is kept *)
FieldValueFirstOnly(o, f, ty) ==
    CASE ty = "str" -> o[f].s
      [] ty = "list_str" ->
            [i \in 1..(IF Len(o[f].items) > 0 THEN 1 ELSE 0) |-> o[f].items[i].s]
      [] ty = "opt_str" -> IF f \in DOMAIN o THEN o[f] ELSE JNull

FieldValue(o, f, ty) ==
    CASE ty = "str" -> o[f].s
      [] ty = "list_str" -> [i \in 1..Len(o[f].items) |-> o[f].items[i].s]
      [] ty = "opt_str" -> IF f \in DOMAIN o THEN o[f] ELSE JNull

(* p_type.model_validate(output_data) for a dict output_data; extra keys are
   ignored, a missing or wrongly typed field is a ValidationError *)
model_validate(p_type, o) ==
    LET ft == FieldTypes(p_type)
        ok == \A f \in DOMAIN ft : FieldOk(o, f, ft[f])
    IN  IF ok
        THEN [ok |-> TRUE,
              model |-> [f \in {"action"} \cup DOMAIN ft |->
                            IF f = "action" THEN ActionDefault(p_type)
                            ELSE FieldValue(o, f, ft[f])]]
        ELSE [ok |-> FALSE, model |-> [action |-> "none"]]

UnknownOutput(reason) == [action |-> "unknown", reason |-> reason]

ActionTags ==
    {"query_rag", "send_email", "schedule_meeting", "general_chat", "unknown"}

-----------------------------------------------------------------------------
(* Intent resolver: _extract_intent_llm after the gateway has answered *)

(* lines 148-156: strip, drop a leading ```json and a trailing ```, strip *)
StripFencesLeadingOnly(text) ==
    LET t1 == strip(text)
    IN  strip(IF t1 # <<>> /\ Head(t1) = FenceJson THEN Tail(t1) ELSE t1)

(* lines 148-156 *)
StripFences(text) ==
    LET t1 == strip(text)
        t2 == IF t1 # <<>> /\ Head(t1) = FenceJson
              THEN LET a == Tail(t1)
                   IN  IF a # <<>> /\ a[Len(a)] = Fence
                       THEN SubSeq(a, 1, Len(a) - 1)
                       ELSE a
              ELSE t1
    IN  strip(t2)

(* mutant: the action tag is not compared before validating *)
TagIgnored(v, p_type) == TRUE

(* output_data.get("action") == p_type.model_fields["action"].default *)
TagMatches(v, p_type) ==
    /\ "action" \in DOMAIN v.o
    /\ v.o["action"] = JStr(Txt(ActionDefault(p_type)))

(* lines 163-175: the loop over possible_types. A value that is no dict has
   no .get, so every iteration raises and is recorded; for a dict only the
   type whose tag matches is validated. *)
MatchingTypesAll(v) == possible_types
MatchingTypes(v) ==
    SelectSeq(possible_types, LAMBDA p : TagMatches(v, p))

ValidationErrors(v) ==
    IF v.t # "obj" THEN possible_types
    ELSE SelectSeq(MatchingTypes(v),
                   LAMBDA p : ~model_validate(p, v.o).ok)

ParsedOutput(v) ==
    IF v.t # "obj" THEN <<>>
    ELSE LET good == SelectSeq(MatchingTypes(v),
                               LAMBDA p : model_validate(p, v.o).ok)
         IN  IF good = <<>> THEN <<>>
             ELSE <<model_validate(good[1], v.o).model>>

MismatchReason(errors) ==
    Txt("LLM output structure mismatch or validation failed. Errors: ")
        \o <<ListRepr(errors)>>

(* mutant: the text that failed to parse is left out of the reason *)
ParseFailReasonBare(response_text) ==
    Txt("Could not parse LLM response as JSON: ")

ParseFailReason(response_text) ==
    Txt("Could not parse LLM response as JSON: ") \o response_text

(* lines 148-192 *)
ParseIntent(text) ==
    LET response_text == StripFences(text)
        loaded == json_loads(response_text)
    IN  IF ~loaded.ok
        THEN UnknownOutput(ParseFailReason(response_text))
        ELSE IF ParsedOutput(loaded.v) # <<>>
             THEN ParsedOutput(loaded.v)[1]
             ELSE UnknownOutput(MismatchReason(ValidationErrors(loaded.v)))

-----------------------------------------------------------------------------
(* History store adapter: crud/crud_conversation.py *)

(* literal prose that begins with "{" or "[" without being JSON *)
BraceLits == {"{not closed", "[1, 2"}

(* s.startswith("{") or s.startswith("[") *)
LooksLikeJson(s) ==
    /\ s # <<>>
    /\ \/ s[1].k = "json" /\ s[1].v.t \in {"obj", "list"}
       \/ s[1].k = "lit" /\ s[1].c \in BraceLits

(* str(x) of a parsed JSON value *)
PyStr(v) == IF v.t = "str" THEN v.s ELSE <<[k |-> "pyrepr", v |-> v]>>

(* lines 13-16: the text stored for a result dict *)
ResponseTextDumped(response_data) == json_dumps(DictToJson(response_data))
ResponseText(response_data) ==
    IF "response" \in DOMAIN response_data
    THEN response_data["response"]
    ELSE json_dumps(DictToJson(response_data))

(* mutant: the row is never added *)
create_entry_dropped(rows, uid, msg, response_data) == rows

(* mutant: the row is added twice *)
create_entry_twice(rows, uid, msg, response_data) ==
    LET row == [user_id |-> uid, message |-> msg,
                response |-> ResponseText(response_data)]
    IN  rows \o <<row, row>>

(* mutant: one row per user, the user's newest row is overwritten *)
create_entry_upsert(rows, uid, msg, response_data) ==
    LET row == [user_id |-> uid, message |-> msg,
                response |-> ResponseText(response_data)]
        mine == {i \in DOMAIN rows : rows[i].user_id = uid}
    IN  IF mine = {} THEN Append(rows, row)
        ELSE [rows EXCEPT ![CHOOSE i \in mine : \A j \in mine : j <= i] = row]

(* mutant: a rolling window, the oldest row is dropped on every write *)
create_entry_rolling(rows, uid, msg, response_data) ==
    Append(IF rows = <<>> THEN rows ELSE Tail(rows),
           [user_id |-> uid, message |-> msg,
            response |-> ResponseText(response_data)])

(* lines 18-26 *)
create_conversation_entry(rows, uid, msg, response_data) ==
    Append(rows, [user_id |-> uid, message |-> msg,
                  response |-> ResponseText(response_data)])

(* lines 50-63: the assistant content replayed from a stored response *)
ReplayResponse(response) ==
    IF LooksLikeJson(strip(response))
    THEN LET loaded == json_loads(response)
         IN  IF ~loaded.ok THEN response
             ELSE IF loaded.v.t = "obj" /\ "response" \in DOMAIN loaded.v.o
                  THEN PyStr(loaded.v.o["response"])
                  ELSE json_dumps(loaded.v)
    ELSE response

(* lines 47-65: the Turns of one row *)
EntryTurns(entry) ==
    (IF entry.message # <<>>
     THEN <<[role |-> "user", content |-> entry.message]>> ELSE <<>>)
    \o
    (IF entry.response # <<>>
     THEN <<[role |-> "assistant", content |-> ReplayResponse(entry.response)]>>
     ELSE <<>>)

RECURSIVE FormatHistory(_)
FormatHistory(rows) ==
    IF rows = <<>> THEN <<>>
    ELSE EntryTurns(Head(rows)) \o FormatHistory(Tail(rows))

(* lines 33-39: the user's newest limit*2 rows, here oldest first *)
HistoryOrmNewestFirst(rows, uid, limit) ==
    LET newest == LastN(SelectSeq(rows, LAMBDA e : e.user_id = uid), limit * 2)
    IN  [i \in 1..Len(newest) |-> newest[Len(newest) + 1 - i]]
(* mutant: the query has no filter on user_id *)
HistoryOrmAllUsers(rows, uid, limit) == LastN(rows, limit * 2)

(* lines 33-39, with the reversal of line 45 *)
HistoryOrm(rows, uid, limit) ==
    LastN(SelectSeq(rows, LAMBDA e : e.user_id = uid), limit * 2)

(* lines 28-70 *)
get_conversation_history(rows, uid, limit) ==
    LastN(FormatHistory(HistoryOrm(rows, uid, limit)), limit * 2)

(* process_message line 59: limit=5 *)
HistoryLimit == 5

-----------------------------------------------------------------------------
(* Prompts *)

RECURSIVE JoinTurns(_)
JoinTurns(turns) ==
    IF turns = <<>> THEN <<>>
    ELSE <<Lit(Head(turns).role), Lit(": ")>> \o Head(turns).content
         \o (IF Len(turns) > 1 THEN <<Lit("\n")>> ELSE <<>>)
         \o JoinTurns(Tail(turns))

(* lines 105-107 and 216-218 *)
HistoryStr(turns) ==
    IF JoinTurns(turns) = <<>>
    THEN Txt("No previous conversation history.")
    ELSE JoinTurns(turns)

(* lines 109-141 *)
IntentPrompt(msg, turns) ==
    [kind |-> "intent", max_tokens |-> 500,
     history_str |-> HistoryStr(turns), subject |-> msg,
     context |-> <<>>]

RECURSIVE JoinDocs(_)
JoinDocs(docs) ==
    IF docs = <<>> THEN <<>>
    ELSE <<Lit("Source: "), Lit(Head(docs).source), Lit("\nContent: "),
           Lit(Head(docs).page_content)>>
         \o (IF Len(docs) > 1 THEN <<Lit("\n\n")>> ELSE <<>>)
         \o JoinDocs(Tail(docs))

(* lines 211-214 *)
ContextBlockJoined(docs) == JoinDocs(docs)
ContextBlock(docs) ==
    IF docs = <<>>
    THEN Txt("No relevant information found in the knowledge base.")
    ELSE JoinDocs(docs)

(* mutant: the synthesis prompt is built without the fetched history *)
SynthesisPromptNoHistory(query, turns, docs) ==
    [kind |-> "synthesis", max_tokens |-> 1000,
     history_str |-> HistoryStr(<<>>), subject |-> query,
     context |-> ContextBlock(docs)]

(* lines 220-236 *)
SynthesisPrompt(query, turns, docs) ==
    [kind |-> "synthesis", max_tokens |-> 1000,
     history_str |-> HistoryStr(turns), subject |-> query,
     context |-> ContextBlock(docs)]

NoPrompt ==
    [kind |-> "none", max_tokens |-> 0, history_str |-> <<>>,
     subject |-> <<>>, context |-> <<>>]

-----------------------------------------------------------------------------
(* Outcomes: the result dicts of process_message and its handlers *)

ErrorOutcome(error, details) == [error |-> error, details |-> details]
ResponseOutcomeBlank(text) == [response |-> <<>>]
ResponseOutcome(text) == [response |-> text]

(* line 68 *)
LlmErrorOutcome(e) ==
    ErrorOutcome(Txt("Could not process request with LLM."), e)

(* line 201 *)
NoKeyOutcome == [error |-> Txt("OPENAI_API_KEY not configured")]

(* mutant: the exception text is dropped *)
RagErrorNoDetails(e) ==
    [error |-> Txt("Failed to answer question using knowledge base.")]

(* line 245 *)
RagErrorOutcome(e) ==
    ErrorOutcome(Txt("Failed to answer question using knowledge base."), e)

(* line 261 *)
handle_send_email(params) ==
    ResponseOutcome(Txt("OK. I will send an email to ") \o params.recipient
                    \o Txt(" with subject '") \o params.subject
                    \o Txt("'. (Actual sending pending)"))

RECURSIVE JoinComma(_)
JoinComma(xs) ==
    IF xs = <<>> THEN <<>>
    ELSE Head(xs) \o (IF Len(xs) > 1 THEN Txt(", ") ELSE <<>>)
         \o JoinComma(Tail(xs))

(* line 271 *)
handle_schedule_meeting(params) ==
    ResponseOutcome(Txt("OK. I'll schedule a meeting with ")
                    \o JoinComma(params.participants)
                    \o Txt(" for ") \o params.date_time
                    \o Txt(". (Implementation Pending)"))

(* line 86 *)
UnknownResponseBare(reason) == ResponseOutcome(reason)
UnknownResponse(reason) ==
    ResponseOutcome(Txt("Sorry, I couldn't understand that. Reason: ")
                    \o reason)

(* mutant: the diagnostic replaces the computed result *)
OnlyHistoryError(res, e) ==
    [history_error |-> Txt("Failed to save interaction: ") \o e]

(* line 98 *)
WithHistoryError(res, e) ==
    [f \in DOMAIN res \cup {"history_error"} |->
        IF f = "history_error"
        THEN Txt("Failed to save interaction: ") \o e
        ELSE res[f]]

-----------------------------------------------------------------------------
(* Environment: what callers send and what the collaborators answer *)

(* the two requests of the model: r1 sends "A" (or nothing) as user u1,
   r2 sends "B" (or blanks) as either user *)
MessagesOf(p) ==
    IF p = "r1" THEN {<<>>, Txt("A")} ELSE {<<WS>>, Txt("B")}
UsersOf(p) == IF p = "r1" THEN {"u1"} ELSE Users

Payload(o) == <<JsonTok(JObj(o), "raw")>>

RagPayload ==
    [action |-> JStr(Txt("query_rag")), query |-> JStr(Txt("what is X"))]
EmailPayload ==
    [action |-> JStr(Txt("send_email")), recipient |-> JStr(Txt("a@b.com")),
     subject |-> JStr(Txt("hi")), body |-> JStr(Txt("text"))]
MeetingPayload ==
    [action |-> JStr(Txt("schedule_meeting")),
     participants |-> JList(<<JStr(Txt("Jane")), JStr(Txt("John"))>>),
     date_time |-> JStr(Txt("tomorrow at 3 PM"))]
MeetingPayloadOn(platform) ==
    [action |-> JStr(Txt("schedule_meeting")),
     participants |-> JList(<<JStr(Txt("Jane")), JStr(Txt("John"))>>),
     date_time |-> JStr(Txt("tomorrow at 3 PM")),
     platform |-> platform]
ChatPayload ==
    [action |-> JStr(Txt("general_chat")), response |-> JStr(Txt("Hello!"))]
UnknownPayload ==
    [action |-> JStr(Txt("unknown")), reason |-> JStr(Txt("ambiguous"))]

(* texts the gateway may answer the resolution call with: one per action
   tag and one that is no JSON *)
GatewayTexts ==
    { Payload(RagPayload), Payload(EmailPayload), Payload(MeetingPayload),
      Payload(ChatPayload), Payload(UnknownPayload), Txt("not json") }

(* more answers, for the specification that exercises the resolver *)
ResolverTexts ==
    GatewayTexts \cup
    { <<FenceJson, WS>> \o Payload(ChatPayload) \o <<WS, Fence>>,
      <<WS, FenceJson>> \o Payload(RagPayload) \o <<Fence, WS>>,
      <<FenceJson>> \o Payload(EmailPayload),
      <<FenceJson, WS>> \o Txt("Sure! Here you go") \o <<WS, Fence>>,
      <<FenceJson, Fence>>,
      <<Fence>> \o Payload(ChatPayload) \o <<Fence>>,
      Payload(ChatPayload) \o Txt(" trailing words"),
      Payload(ChatPayload) \o Payload(RagPayload),
      <<>>,
      <<WS>>,
      Txt("{not closed"),
      Payload([action |-> JStr(Txt("delete_everything"))]),
      Payload([query |-> JStr(Txt("what is X"))]),
      Payload([action |-> JStr(Txt("send_email")),
               recipient |-> JStr(Txt("a@b.com"))]),
      Payload([action |-> JStr(Txt("query_rag")), query |-> JNum(7)]),
      Payload([action |-> JNum(7), query |-> JStr(Txt("what is X"))]),
      <<JsonTok(JList(<<JNum(1)>>), "raw")>>,
      <<JsonTok(JStr(Txt("query_rag")), "raw")>>,
      <<JsonTok(JNull, "raw")>>,
      Payload([action |-> JStr(Txt("delete_everything")),
               query |-> JStr(Txt("what is X"))]),
      Payload([action |-> JStr(Txt("unknown"))]),
      Payload([action |-> JStr(Txt("schedule_meeting")),
               participants |-> JList(<<JNum(7)>>),
               date_time |-> JStr(Txt("tomorrow at 3 PM"))]),
      Payload([action |-> JStr(Txt("schedule_meeting")),
               participants |-> JStr(Txt("Jane")),
               date_time |-> JStr(Txt("tomorrow at 3 PM"))]),
      Payload(MeetingPayloadOn(JNum(7))),
      Payload(MeetingPayloadOn(JStr(Txt("Zoom")))),
      Payload(MeetingPayloadOn(JNull)),
      Payload([action |-> JStr(Txt("query_rag")), query |-> JStr(<<>>)]),
      Payload([action |-> JStr(Txt("general_chat")), response |-> JStr(<<>>)]),
      Payload([action |-> JStr(Txt("schedule_meeting")),
               participants |-> JList(<<>>),
               date_time |-> JStr(Txt("tomorrow at 3 PM"))]),
      Payload([action |-> JStr(Txt("general_chat")),
               query |-> JStr(Txt("what is X"))]),
      Payload([action |-> JStr(Txt("general_chat")),
               response |-> JStr(Payload([response |-> JStr(Txt("inner"))]))]),
      Payload([action |-> JStr(Txt("general_chat")),
               response |-> JStr(Txt("{not closed"))]) }

(* texts the gateway may answer the synthesis call with *)
SynthTexts == {Txt("X is 42.")}

(* what similarity_search may return *)
SearchResults ==
    {<<>>, <<[source |-> "report.pdf", page_content |-> "X is 42"]>>}

GatewayError == Txt("gateway unreachable")
SearchError == Txt("vector store unavailable")
DbError == Txt("database unavailable")

-----------------------------------------------------------------------------
(* State *)

NoAction == [action |-> "none"]
NoResult == [none |-> <<>>]
ActionReturned(a) == [kind |-> "return", value |-> a, exc |-> <<>>]
ActionRaised(e) == [kind |-> "raise", value |-> NoAction, exc |-> e]
NotResolved == [kind |-> "none", value |-> NoAction, exc |-> <<>>]
NoOutcome == [kind |-> "none", value |-> NoResult, exc |-> <<>>]
Returned(res) == [kind |-> "return", value |-> res, exc |-> <<>>]
Raised(e) == [kind |-> "raise", value |-> NoResult, exc |-> e]
NoHttp == [status |-> 0, body |-> NoResult]
HttpOk(res) == [status |-> 200, body |-> res]
HttpError(code) == [status |-> code, body |-> NoResult]

(* rows earlier requests have left in the table *)
(* the endpoint's global `conversation_handler`: not yet assigned, a handler
   object, or the exception that ended the module's initialisation *)
HandlerUnset == [state |-> "unset", exc |-> <<>>, llm |-> "none"]
HandlerWith(llm) == [state |-> "ready", exc |-> <<>>, llm |-> llm]
HandlerFailed(e) == [state |-> "failed", exc |-> e, llm |-> "none"]

(* a handler whose self.llm is any implementation of BaseLLM.generate that
   answers with a text or raises *)
HandlerReady == HandlerWith("BaseLLM")

(* EmailIntegration.__init__(self, config): `config` has no default *)
EmailIntegration_init(args) ==
    IF Len(args) = 1
    THEN [ok |-> TRUE, exc |-> <<>>]
    ELSE [ok |-> FALSE,
          exc |-> Txt("TypeError: __init__() missing 1 required positional argument: 'config'")]

(* ConversationHandler.__init__(self, llm): line 52 calls EmailIntegration()
   with no argument; its exception is not caught *)
ConversationHandler_init(llm) ==
    LET built == EmailIntegration_init(<<>>)
    IN  IF built.ok THEN HandlerWith(llm) ELSE HandlerFailed(built.exc)

(* llm.py lines 64-71, called without argument: provider = "claude" *)
get_llm == "ClaudeLLM"

InitRows ==
    { [user_id |-> "u1", message |-> Txt("hello"), response |-> Txt("Hello!")],
      [user_id |-> "u2", message |-> Txt("B"),
       response |-> ResponseText(LlmErrorOutcome(GatewayError))] }

InitStores == UNION {[1..n -> InitRows] : n \in 0..MaxInitRows}

Init ==
    /\ store \in InitStores
    /\ openai_key \in BOOLEAN
    /\ pc = [p \in Procs |-> "idle"]
    /\ message = [p \in Procs |-> <<>>]
    /\ user_id = [p \in Procs |-> "u1"]
    /\ history = [p \in Procs |-> <<>>]
    /\ prompt = [p \in Procs |-> NoPrompt]
    /\ llm_text = [p \in Procs |-> <<>>]
    /\ search_results = [p \in Procs |-> <<>>]
    /\ conversation_handler = HandlerReady
    /\ synth_text = [p \in Procs |-> <<>>]
    /\ resolved = [p \in Procs |-> NotResolved]
    /\ structured_output = [p \in Procs |-> NoAction]
    /\ result = [p \in Procs |-> NoResult]
    /\ outcome = [p \in Procs |-> NoOutcome]
    /\ http = [p \in Procs |-> NoHttp]
    /\ trace = [p \in Procs |-> <<>>]

(* the endpoint's answer to how the handler ended (lines 56-64) *)
EndpointAnswer(o) ==
    IF o.kind = "return" THEN HttpOk(o.value) ELSE HttpError(500)

(* the handler ends: it returns or raises, and the endpoint answers *)
Finish(p, o) ==
    /\ outcome' = [outcome EXCEPT ![p] = o]
    /\ http' = [http EXCEPT ![p] = EndpointAnswer(o)]
    /\ pc' = [pc EXCEPT ![p] = "done"]

Log(p, ev) == trace' = [trace EXCEPT ![p] = Append(@, ev)]

(* endpoint lines 47-48: the input validation *)
Rejects(text) == text = <<>>

(* POST /process arrives: endpoint lines 44-54 *)
Request(p) ==
    /\ pc[p] = "idle"
    /\ \E text \in MessagesOf(p), u \in UsersOf(p) :
        /\ message' = [message EXCEPT ![p] = text]
        /\ user_id' = [user_id EXCEPT ![p] = u]
        /\ IF Rejects(text)
           THEN /\ http' = [http EXCEPT ![p] = HttpError(400)]
                /\ pc' = [pc EXCEPT ![p] = "done"]
           ELSE /\ http' = [http EXCEPT ![p] = NoHttp]
                /\ pc' = [pc EXCEPT ![p] = "fetch"]
    /\ history' = [history EXCEPT ![p] = <<>>]
    /\ prompt' = [prompt EXCEPT ![p] = NoPrompt]
    /\ llm_text' = [llm_text EXCEPT ![p] = <<>>]
    /\ search_results' = [search_results EXCEPT ![p] = <<>>]
    /\ synth_text' = [synth_text EXCEPT ![p] = <<>>]
    /\ resolved' = [resolved EXCEPT ![p] = NotResolved]
    /\ structured_output' = [structured_output EXCEPT ![p] = NoAction]
    /\ result' = [result EXCEPT ![p] = NoResult]
    /\ outcome' = [outcome EXCEPT ![p] = NoOutcome]
    /\ trace' = [trace EXCEPT ![p] = <<>>]
    /\ UNCHANGED <<conversation_handler, store, openai_key>>

(* process_message line 59; an exception of the store is not caught *)
FetchHistory(p) ==
    /\ pc[p] = "fetch"
    /\ \/ /\ history' = [history EXCEPT ![p] =
                get_conversation_history(store, user_id[p], HistoryLimit)]
          /\ Log(p, "fetch")
          /\ pc' = [pc EXCEPT ![p] = "resolve"]
          /\ UNCHANGED <<outcome, http>>
       \/ /\ Log(p, "fetch_fail")
          /\ Finish(p, Raised(DbError))
          /\ UNCHANGED history
    /\ UNCHANGED <<conversation_handler, search_results, synth_text, store, openai_key, message, user_id, prompt, llm_text,
                   resolved, structured_output, result>>

(* what llm.generate() does: it returns a text or raises *)
AnswersWith(texts) ==
    {[ok |-> TRUE, text |-> t, exc |-> <<>>] : t \in texts}
        \cup {[ok |-> FALSE, text |-> <<>>, exc |-> GatewayError]}

GatewayAnswers == AnswersWith(GatewayTexts)
ResolverAnswers == AnswersWith(ResolverTexts)

SynthAnswers == AnswersWith(SynthTexts)

(* llm.py: the keywords each implementation writes out in its call of the
   provider client, next to **kwargs (lines 23-28 and 44-48) *)
ExplicitKeywords(llm) ==
    CASE llm = "ClaudeLLM" -> {"model", "max_tokens", "messages"}
      [] llm = "OpenAILLM" -> {"model", "messages"}
      [] OTHER -> {}

KeywordError ==
    Txt("TypeError: got multiple values for keyword argument 'max_tokens'")

(* generate(prompt, **kwargs) of implementation llm: a keyword given both
   explicitly and through **kwargs is a TypeError raised by the call
   expression, before the provider client runs; otherwise the provider
   answers with one of texts or raises *)
generate(llm, kwargs, texts) ==
    IF ExplicitKeywords(llm) \cap DOMAIN kwargs # {}
    THEN {[ok |-> FALSE, text |-> <<>>, exc |-> KeywordError]}
    ELSE AnswersWith(texts)

(* _extract_intent_llm lines 102-192: the generate() call of line 147 is
   outside the try block of lines 158-192, so its exception leaves the
   method; everything after it is caught and becomes an UnknownOutput *)
extract_intent_llm(answer) ==
    IF answer.ok
    THEN ActionReturned(ParseIntent(answer.text))
    ELSE ActionRaised(answer.exc)

(* process_message lines 62-68 with _extract_intent_llm lines 102-192 *)
ExtractIntentFrom(p, answers) ==
    /\ pc[p] = "resolve"
    /\ prompt' = [prompt EXCEPT ![p] = IntentPrompt(message[p], history[p])]
    /\ \E answer \in answers :
        LET r == extract_intent_llm(answer)
        IN  /\ llm_text' = [llm_text EXCEPT ![p] = answer.text]
            /\ resolved' = [resolved EXCEPT ![p] = r]
            /\ Log(p, IF answer.ok THEN "generate" ELSE "generate_fail")
            /\ IF r.kind = "return"
               THEN /\ structured_output' =
                          [structured_output EXCEPT ![p] = r.value]
                    /\ pc' = [pc EXCEPT ![p] = "dispatch"]
                    /\ UNCHANGED result
               ELSE /\ result' = [result EXCEPT ![p] = LlmErrorOutcome(r.exc)]
                    /\ pc' = [pc EXCEPT ![p] = "persist_error"]
                    /\ UNCHANGED structured_output
    /\ UNCHANGED <<conversation_handler, search_results, synth_text, store, openai_key, message, user_id, history, outcome,
                   http>>

ExtractIntent(p) == ExtractIntentFrom(p, GatewayAnswers)

(* line 147 through the handler's own implementation: max_tokens=500 *)
ExtractIntentVia(p) ==
    ExtractIntentFrom(p, generate(conversation_handler.llm,
                                  [max_tokens |-> 500], GatewayTexts))
ExtractIntentRich(p) == ExtractIntentFrom(p, ResolverAnswers)

(* process_message lines 74-89 and the handlers up to their first await *)
Dispatch(p) ==
    /\ pc[p] = "dispatch"
    /\ LET so == structured_output[p]
           action == so.action
       IN  CASE action = "query_rag" /\ ~openai_key ->
                    /\ result' = [result EXCEPT ![p] = NoKeyOutcome]
                    /\ pc' = [pc EXCEPT ![p] = "persist"]
                    /\ UNCHANGED <<prompt, trace, search_results>>
             [] action = "query_rag" /\ openai_key ->
                    \/ \E docs \in SearchResults :
                         /\ prompt' = [prompt EXCEPT ![p] =
                                SynthesisPrompt(so.query, history[p], docs)]
                         /\ search_results' =
                                [search_results EXCEPT ![p] = docs]
                         /\ Log(p, "search")
                         /\ pc' = [pc EXCEPT ![p] = "synthesize"]
                         /\ UNCHANGED result
                    \/ /\ result' = [result EXCEPT ![p] =
                                        RagErrorOutcome(SearchError)]
                       /\ Log(p, "search_fail")
                       /\ pc' = [pc EXCEPT ![p] = "persist"]
                       /\ UNCHANGED <<prompt, search_results>>
             [] action = "send_email" ->
                    /\ result' = [result EXCEPT ![p] = handle_send_email(so)]
                    /\ pc' = [pc EXCEPT ![p] = "persist"]
                    /\ UNCHANGED <<prompt, trace, search_results>>
             [] action = "schedule_meeting" ->
                    /\ result' = [result EXCEPT ![p] =
                                     handle_schedule_meeting(so)]
                    /\ pc' = [pc EXCEPT ![p] = "persist"]
                    /\ UNCHANGED <<prompt, trace, search_results>>
             [] action = "general_chat" ->
                    /\ result' = [result EXCEPT ![p] =
                                     ResponseOutcome(so.response)]
                    /\ pc' = [pc EXCEPT ![p] = "persist"]
                    /\ UNCHANGED <<prompt, trace, search_results>>
             [] action = "unknown" ->
                    /\ result' = [result EXCEPT ![p] =
                                     UnknownResponse(so.reason)]
                    /\ pc' = [pc EXCEPT ![p] = "persist"]
                    /\ UNCHANGED <<prompt, trace, search_results>>
    /\ UNCHANGED <<conversation_handler, synth_text, store, openai_key, message, user_id, history, llm_text,
                   structured_output, resolved, outcome, http>>

(* _handle_rag_query lines 239-245: the synthesis call *)
rag_result(answer) ==
    IF answer.ok THEN ResponseOutcome(answer.text)
    ELSE RagErrorOutcome(answer.exc)

SynthesizeFrom(p, answers) ==
    /\ pc[p] = "synthesize"
    /\ \E answer \in answers :
        /\ result' = [result EXCEPT ![p] = rag_result(answer)]
        /\ synth_text' = [synth_text EXCEPT ![p] = answer.text]
        /\ Log(p, IF answer.ok THEN "generate" ELSE "generate_fail")
    /\ pc' = [pc EXCEPT ![p] = "persist"]
    /\ UNCHANGED <<conversation_handler, search_results, store, openai_key, message, user_id, history, prompt,
                   llm_text, structured_output, resolved, outcome, http>>

Synthesize(p) == SynthesizeFrom(p, SynthAnswers)

(* line 239 through the handler's own implementation: max_tokens=1000 *)
SynthesizeVia(p) ==
    SynthesizeFrom(p, generate(conversation_handler.llm,
                               [max_tokens |-> 1000], SynthTexts))

(* what db.add/db.commit does: the row is stored or an exception is raised *)
StoreFaults == {<<>>, DbError}

(* process_message lines 92-100: a failed write annotates the result *)
persist_result(res, fault) ==
    IF fault = <<>> THEN res ELSE WithHistoryError(res, fault)

Persist(p) ==
    /\ pc[p] = "persist"
    /\ \E fault \in StoreFaults :
        /\ IF fault = <<>>
           THEN /\ store' = create_conversation_entry(
                                store, user_id[p], message[p], result[p])
                /\ Log(p, "write")
           ELSE /\ Log(p, "write_fail")
                /\ UNCHANGED store
        /\ result' = [result EXCEPT ![p] = persist_result(result[p], fault)]
        /\ Finish(p, Returned(persist_result(result[p], fault)))
    /\ UNCHANGED <<conversation_handler, search_results, synth_text, openai_key, message, user_id, history, prompt, llm_text,
                   structured_output, resolved>>

(* process_message lines 70-71: inside the except branch the write is not
   protected, so its exception leaves process_message *)
persist_error_outcome(res, fault) ==
    IF fault = <<>> THEN Returned(res) ELSE Raised(fault)

PersistError(p) ==
    /\ pc[p] = "persist_error"
    /\ \E fault \in StoreFaults :
        /\ IF fault = <<>>
           THEN /\ store' = create_conversation_entry(
                                store, user_id[p], message[p], result[p])
                /\ Log(p, "write")
           ELSE /\ Log(p, "write_fail")
                /\ UNCHANGED store
        /\ Finish(p, persist_error_outcome(result[p], fault))
    /\ UNCHANGED <<conversation_handler, search_results, synth_text, openai_key, message, user_id, history, prompt, llm_text,
                   structured_output, resolved, result>>

Next ==
    \E p \in Procs :
        \/ Request(p)
        \/ FetchHistory(p)
        \/ ExtractIntent(p)
        \/ Dispatch(p)
        \/ Synthesize(p)
        \/ Persist(p)
        \/ PersistError(p)

Spec == Init /\ [][Next]_vars

(* one request through the whole pipeline, the gateway answering the
   resolution call with any of ResolverTexts *)
NextResolve ==
    \/ Request("r2")
    \/ FetchHistory("r2")
    \/ ExtractIntentRich("r2")
    \/ Dispatch("r2")
    \/ Synthesize("r2")
    \/ Persist("r2")
    \/ PersistError("r2")

SpecResolve == Init /\ [][NextResolve]_vars

(* The same request under scheduling: the handler's own steps run and the
   store answers, so the steps that wait for neither are weakly fair.  The
   two generate() calls are awaited with no timeout (lines 147 and 239), so
   nothing obliges ExtractIntentRich or Synthesize to happen. *)
SpecLive ==
    /\ Init
    /\ [][NextResolve]_vars
    /\ WF_vars(FetchHistory("r2"))
    /\ WF_vars(Dispatch("r2"))
    /\ WF_vars(Persist("r2"))
    /\ WF_vars(PersistError("r2"))

(* The history read of one request over a store that holds up to
   MaxHistoryRows earlier entries.  Entry i carries the message
   "question i" and either the response "answer i" or the empty response
   (the text create_conversation_entry stores for {"response": ""}). *)
MaxHistoryRows == 6

Numbered(i) == [k |-> "no", n |-> i]

HistoryRow(i, uid, answered) ==
    [user_id |-> uid,
     message |-> <<Lit("question "), Numbered(i)>>,
     response |-> IF answered THEN <<Lit("answer "), Numbered(i)>> ELSE <<>>]

InitHistory ==
    /\ \E n \in 0..MaxHistoryRows :
         \E us \in [1..n -> Users], an \in [1..n -> BOOLEAN] :
            store = [i \in 1..n |-> HistoryRow(i, us[i], an[i])]
    /\ openai_key = TRUE
    /\ pc = [p \in Procs |-> "idle"]
    /\ message = [p \in Procs |-> <<>>]
    /\ user_id = [p \in Procs |-> "u1"]
    /\ history = [p \in Procs |-> <<>>]
    /\ prompt = [p \in Procs |-> NoPrompt]
    /\ llm_text = [p \in Procs |-> <<>>]
    /\ search_results = [p \in Procs |-> <<>>]
    /\ conversation_handler = HandlerReady
    /\ synth_text = [p \in Procs |-> <<>>]
    /\ resolved = [p \in Procs |-> NotResolved]
    /\ structured_output = [p \in Procs |-> NoAction]
    /\ result = [p \in Procs |-> NoResult]
    /\ outcome = [p \in Procs |-> NoOutcome]
    /\ http = [p \in Procs |-> NoHttp]
    /\ trace = [p \in Procs |-> <<>>]

NextHistory ==
    \/ Request("r2")
    \/ FetchHistory("r2")

SpecHistory == InitHistory /\ [][NextHistory]_vars

(* The start of the service: the endpoint module builds its handler from an
   LLM alone (endpoint lines 16-18), over any content of the store. Only
   ValueError is caught there, so any other exception of the constructor
   ends the initialisation. *)
NoRequests ==
    /\ pc = [p \in Procs |-> "idle"]
    /\ message = [p \in Procs |-> <<>>]
    /\ user_id = [p \in Procs |-> "u1"]
    /\ history = [p \in Procs |-> <<>>]
    /\ prompt = [p \in Procs |-> NoPrompt]
    /\ llm_text = [p \in Procs |-> <<>>]
    /\ search_results = [p \in Procs |-> <<>>]
    /\ synth_text = [p \in Procs |-> <<>>]
    /\ resolved = [p \in Procs |-> NotResolved]
    /\ structured_output = [p \in Procs |-> NoAction]
    /\ result = [p \in Procs |-> NoResult]
    /\ outcome = [p \in Procs |-> NoOutcome]
    /\ http = [p \in Procs |-> NoHttp]
    /\ trace = [p \in Procs |-> <<>>]

InitStartup ==
    /\ \E n \in 0..MaxHistoryRows :
         \E us \in [1..n -> Users], an \in [1..n -> BOOLEAN] :
            store = [i \in 1..n |-> HistoryRow(i, us[i], an[i])]
    /\ openai_key \in BOOLEAN
    /\ conversation_handler = HandlerUnset
    /\ NoRequests

Startup ==
    /\ conversation_handler = HandlerUnset
    /\ conversation_handler' = ConversationHandler_init(get_llm)
    /\ UNCHANGED <<store, openai_key, pc, message, user_id, history, prompt,
                   llm_text, search_results, synth_text, resolved,
                   structured_output, result, outcome, http, trace>>

NextStartup == Startup

SpecStartup == InitStartup /\ [][NextStartup]_vars

(* One request handled by a handler whose self.llm is one of the two
   implementations of llm.py *)
InitGateway ==
    /\ store \in InitStores
    /\ openai_key \in BOOLEAN
    /\ conversation_handler \in {HandlerWith("ClaudeLLM"), HandlerWith("OpenAILLM")}
    /\ NoRequests

NextGateway ==
    \/ Request("r2")
    \/ FetchHistory("r2")
    \/ ExtractIntentVia("r2")
    \/ Dispatch("r2")
    \/ SynthesizeVia("r2")
    \/ Persist("r2")
    \/ PersistError("r2")

SpecGateway == InitGateway /\ [][NextGateway]_vars

-----------------------------------------------------------------------------
(* Vocabulary of the properties *)

Last(sq) == sq[Len(sq)]
Has(sq, ev) == \E i \in 1..Len(sq) : sq[i] = ev

(* the request has ended without being rejected by the input validation *)
Processed(p) == pc[p] = "done" /\ http[p].status # 400

(* this step is the one in which process_message of request p ends *)
Ends(p) == pc[p] \notin {"idle", "done"} /\ pc'[p] = "done"

(* the history store never failed request p *)
StoreHealthy(tr) == ~Has(tr, "fetch_fail") /\ ~Has(tr, "write_fail")

Row(uid, msg, response) ==
    [user_id |-> uid, message |-> msg, response |-> response]

ErrorShaped(res) == DOMAIN res = {"error", "details"}

-----------------------------------------------------------------------------
(* C1: process_message always ends by returning an Outcome mapping; no
   exception leaves it, whichever of its steps fail (history fetch, gateway
   call, handler, history write, also the write of the branch taken after
   the resolution raised). *)
C1_AlwaysReturnsOutcome ==
    \A p \in Procs :
        Processed(p) =>
            /\ outcome[p].kind = "return"
            /\ http[p].status = 200

-----------------------------------------------------------------------------
(* C2: whatever the gateway does (any text, or a failure), the resolver
   _extract_intent_llm returns one Action variant and never raises; a
   gateway failure becomes the unknown variant. *)
C2_ResolverNeverRaises ==
    \A p \in Procs :
        resolved[p].kind # "none" =>
            /\ resolved[p].kind = "return"
            /\ resolved[p].value.action \in ActionTags
            /\ (Has(trace[p], "generate_fail") =>
                    resolved[p].value.action = "unknown")

-----------------------------------------------------------------------------
(* C3: when the resolution raises and the history store is healthy,
   process_message appends one ConversationEntry with the original message
   and the error Outcome, returns that error Outcome {error, details}, and
   dispatches no handler. *)
C3_ResolveFailurePersisted ==
    [][\A p \in Procs :
        (Ends(p) /\ resolved[p].kind = "raise" /\ StoreHealthy(trace'[p])) =>
            /\ outcome'[p].kind = "return"
            /\ ErrorShaped(outcome'[p].value)
            /\ outcome'[p].value["error"] =
                    Txt("Could not process request with LLM.")
            /\ outcome'[p].value["details"] = resolved[p].exc
            /\ store' = Append(store,
                    Row(user_id[p], message[p],
                        <<JsonTok(JObj([error |-> JStr(outcome'[p].value["error"]),
                                        details |-> JStr(resolved[p].exc)]),
                                  "canon")>>))
            /\ structured_output'[p] = NoAction
            /\ trace'[p] = <<"fetch", "generate_fail", "write">>]_vars

C3_Witness ==
    \E p \in Procs :
        /\ pc[p] = "done"
        /\ resolved[p].kind = "raise"
        /\ outcome[p].kind = "return"
        /\ Last(trace[p]) = "write"

-----------------------------------------------------------------------------
(* C4: when the history write fails after a handler has produced an
   Outcome, process_message returns that Outcome with every field it had
   unchanged and exactly one more field, history_error. *)
C4_WriteFailureAnnotates ==
    [][\A p \in Procs :
        (Ends(p) /\ pc[p] = "persist" /\ Last(trace'[p]) = "write_fail") =>
            /\ outcome'[p].kind = "return"
            /\ "history_error" \notin DOMAIN result[p]
            /\ DOMAIN outcome'[p].value =
                    DOMAIN result[p] \cup {"history_error"}
            /\ \A f \in DOMAIN result[p] :
                    outcome'[p].value[f] = result[p][f]
            /\ http'[p] = HttpOk(outcome'[p].value)]_vars

C4_Witness ==
    \E p \in Procs :
        /\ pc[p] = "done"
        /\ outcome[p].kind = "return"
        /\ DOMAIN outcome[p].value = {"response", "history_error"}
        /\ Last(trace[p]) = "write_fail"

-----------------------------------------------------------------------------
(* C5: with a healthy history store, every process_message call that passes
   the input validation creates exactly one ConversationEntry, carrying the
   caller's user_id and the input message, on every path: the store changes
   only in the step that ends a call, and that step appends one row. *)
C5_ExactlyOneEntry ==
    [][/\ \A p \in Procs :
            (Ends(p) /\ StoreHealthy(trace'[p])) =>
                /\ Len(store') = Len(store) + 1
                /\ SubSeq(store', 1, Len(store)) = store
                /\ Last(store').user_id = user_id[p]
                /\ Last(store').message = message[p]
       /\ (\A p \in Procs : ~Ends(p)) => store' = store]_vars

C5_Witness ==
    /\ \A p \in Procs : Processed(p) /\ StoreHealthy(trace[p])
    /\ resolved["r1"].kind = "raise"
    /\ structured_output["r2"].action = "query_rag"
    /\ "error" \in DOMAIN outcome["r2"].value

-----------------------------------------------------------------------------
(* C6: two process_message calls of the same user with messages A and B,
   interleaved in any way, both complete (neither ever waits for the other),
   and afterwards the store holds exactly one entry for A and exactly one
   for B. *)
RowsFor(uid, msg) ==
    {i \in DOMAIN store : store[i].user_id = uid /\ store[i].message = msg}

Running(p) ==
    \/ FetchHistory(p) \/ ExtractIntent(p) \/ Dispatch(p)
    \/ Synthesize(p) \/ Persist(p) \/ PersistError(p)

SameUserAB ==
    /\ user_id["r1"] = user_id["r2"]
    /\ message["r1"] = Txt("A")
    /\ message["r2"] = Txt("B")
    /\ \A p \in Procs : Processed(p) /\ StoreHealthy(trace[p])

C6_ConcurrentCallsBothAppend ==
    /\ \A p \in Procs : pc[p] \notin {"idle", "done"} => ENABLED Running(p)
    /\ SameUserAB =>
            /\ Cardinality(RowsFor(user_id["r1"], Txt("A"))) = 1
            /\ Cardinality(RowsFor(user_id["r1"], Txt("B"))) = 1

(* both calls were in flight together, and B's row was written first *)
C6_Witness ==
    /\ SameUserAB
    /\ history["r1"] = history["r2"]
    /\ \E i, j \in DOMAIN store :
          /\ i < j
          /\ store[i].message = Txt("B")
          /\ store[j].message = Txt("A")

-----------------------------------------------------------------------------
(* C7: when the external capability of a dispatched handler throws (search
   or synthesis generation), the handler catches it, process_message returns
   an error-shaped Outcome {error, details}, and the ConversationEntry of
   the message is still persisted. *)
HandlerThrew(tr) ==
    \/ Has(tr, "search_fail")
    \/ Len(tr) >= 4 /\ tr[4] = "generate_fail"

C7_HandlerFailureCaught ==
    [][\A p \in Procs :
        (Ends(p) /\ HandlerThrew(trace[p])) =>
            /\ pc[p] = "persist"
            /\ outcome'[p].kind = "return"
            /\ {"error", "details"} \subseteq DOMAIN outcome'[p].value
            /\ "response" \notin DOMAIN outcome'[p].value
            /\ outcome'[p].value["details"] \in {SearchError, GatewayError}
            /\ (Last(trace'[p]) = "write" =>
                  store' = Append(store,
                      Row(user_id[p], message[p],
                          <<JsonTok(JObj(
                              [error |-> JStr(outcome'[p].value["error"]),
                               details |-> JStr(outcome'[p].value["details"])]),
                              "canon")>>)))]_vars

C7_Witness ==
    \E p \in Procs :
        /\ pc[p] = "done"
        /\ trace[p] = <<"fetch", "generate", "search", "generate_fail", "write">>
        /\ ErrorShaped(outcome[p].value)

-----------------------------------------------------------------------------
(* C8: when the history fetch fails, the failure becomes an error-shaped
   Outcome that is returned to the caller, and a history write for the
   message is still attempted before returning. *)
C8_FetchFailureReturnsOutcome ==
    \A p \in Procs :
        (pc[p] = "done" /\ Has(trace[p], "fetch_fail")) =>
            /\ outcome[p].kind = "return"
            /\ "error" \in DOMAIN outcome[p].value
            /\ (Has(trace[p], "write") \/ Has(trace[p], "write_fail"))

-----------------------------------------------------------------------------
(* C9: a message that is empty or only whitespace is rejected with a client
   error before the history is fetched: no history read, no gateway call and
   no ConversationEntry write happens for it. *)
C9_BlankRejected ==
    \A p \in Procs :
        (pc[p] # "idle" /\ strip(message[p]) = <<>>) =>
            /\ http[p].status = 400
            /\ pc[p] = "done"
            /\ trace[p] = <<>>

-----------------------------------------------------------------------------
(* C10: when the gateway text, after fence stripping, is not parseable as
   JSON, the resolver returns (does not raise) the unknown variant whose
   reason says that the response could not be parsed as JSON, followed by
   the text it tried to parse. *)
IsJsonDocument(text) == Len(text) = 1 /\ text[1].k = "json"

C10_UnparseableIsUnknown ==
    \A p \in Procs :
        (/\ resolved[p].kind # "none"
         /\ ~Has(trace[p], "generate_fail")
         /\ ~IsJsonDocument(StripFences(llm_text[p]))) =>
            /\ resolved[p].kind = "return"
            /\ resolved[p].value.action = "unknown"
            /\ DOMAIN resolved[p].value = {"action", "reason"}
            /\ resolved[p].value.reason =
                  <<Lit("Could not parse LLM response as JSON: ")>>
                      \o StripFences(llm_text[p])

(* a fenced answer whose content is prose *)
C10_Witness ==
    \E p \in Procs :
        /\ resolved[p].kind = "return"
        /\ resolved[p].value.action = "unknown"
        /\ llm_text[p] # <<>>
        /\ Head(llm_text[p]) = FenceJson
        /\ Len(resolved[p].value.reason) > 1
        /\ resolved[p].value.reason[2] = Lit("Sure! Here you go")

-----------------------------------------------------------------------------
(* The catalogue as the specification states it: the required fields of
   each action tag *)
RequiredFields(tag) ==
    CASE tag = "query_rag" -> {"query"}
      [] tag = "send_email" -> {"recipient", "subject", "body"}
      [] tag = "schedule_meeting" -> {"participants", "date_time"}
      [] tag = "general_chat" -> {"response"}
      [] tag = "unknown" -> {"reason"}

IsListOfStrings(v) ==
    v.t = "list" /\ \A i \in 1..Len(v.items) : v.items[i].t = "str"

(* field f of the JSON object o is present with the catalogue's type *)
WellTyped(o, f) ==
    /\ f \in DOMAIN o
    /\ IF f = "participants" THEN IsListOfStrings(o[f]) ELSE o[f].t = "str"

(* the tag of the object, "" when it names no catalogue entry *)
TagOf(o) ==
    IF "action" \in DOMAIN o /\ o["action"].t = "str"
       /\ \E tag \in ActionTags : o["action"].s = Txt(tag)
    THEN CHOOSE tag \in ActionTags : o["action"].s = Txt(tag)
    ELSE ""

(* the gateway answered request p with one JSON document *)
Answered(p) ==
    /\ resolved[p].kind # "none"
    /\ ~Has(trace[p], "generate_fail")
    /\ IsJsonDocument(StripFences(llm_text[p]))

Document(p) == StripFences(llm_text[p])[1].v

(* C11: when the gateway text parses as JSON but is no object, or its action
   tag matches no catalogue entry, or the tag matches and a required field
   is missing or of the wrong type, the resolver returns the unknown variant
   (no other variant, no exception). *)
C11_SchemaMismatchIsUnknown ==
    \A p \in Procs :
        (/\ Answered(p)
         /\ \/ Document(p).t # "obj"
            \/ /\ Document(p).t = "obj"
               /\ \/ TagOf(Document(p).o) = ""
                  \/ /\ TagOf(Document(p).o) # ""
                     /\ \E f \in RequiredFields(TagOf(Document(p).o)) :
                            ~WellTyped(Document(p).o, f)) =>
            /\ resolved[p].kind = "return"
            /\ resolved[p].value.action = "unknown"
            /\ DOMAIN resolved[p].value = {"action", "reason"}

(* a send_email payload without subject and body *)
C11_Witness ==
    \E p \in Procs :
        /\ Answered(p)
        /\ Document(p).t = "obj"
        /\ TagOf(Document(p).o) = "send_email"
        /\ "subject" \notin DOMAIN Document(p).o
        /\ resolved[p].kind = "return"
        /\ resolved[p].value.action = "unknown"

-----------------------------------------------------------------------------
(* C12: every Action other than unknown that the resolver returns has all
   fields its variant requires present and non-empty; a payload with a
   matching tag and an empty required field (empty string, empty list)
   yields the unknown variant. *)
C12_RequiredFieldsNonEmpty ==
    \A p \in Procs :
        (resolved[p].kind = "return"
         /\ resolved[p].value.action \in ActionTags \ {"unknown"}) =>
            \A f \in RequiredFields(resolved[p].value.action) :
                /\ f \in DOMAIN resolved[p].value
                /\ resolved[p].value[f] # <<>>

-----------------------------------------------------------------------------
(* C13: for each of the five tags, when the gateway returns a catalogue-valid
   JSON object for that tag, the resolver returns the variant with that tag
   and with every field value identical to the payload's. *)
CatalogueValid(o) ==
    /\ TagOf(o) # ""
    /\ \A f \in RequiredFields(TagOf(o)) : WellTyped(o, f)
    /\ DOMAIN o \ ({"action"} \cup RequiredFields(TagOf(o))) \subseteq
            (IF TagOf(o) = "schedule_meeting" THEN {"platform"} ELSE {})
    /\ "platform" \in DOMAIN o => o["platform"].t \in {"str", "null"}

(* the JSON value a field of a returned Action stands for *)
AsJson(f, x) ==
    CASE f = "participants" -> JList([i \in 1..Len(x) |-> JStr(x[i])])
      [] f = "platform" -> x
      [] OTHER -> JStr(x)

C13_ValidPayloadRoundTrip ==
    \A p \in Procs :
        (Answered(p) /\ Document(p).t = "obj"
         /\ CatalogueValid(Document(p).o)) =>
            /\ resolved[p].kind = "return"
            /\ resolved[p].value.action = TagOf(Document(p).o)
            /\ \A f \in DOMAIN Document(p).o \ {"action"} :
                  /\ f \in DOMAIN resolved[p].value
                  /\ AsJson(f, resolved[p].value[f]) = Document(p).o[f]

(* a schedule_meeting payload with two participants and a platform *)
C13_Witness ==
    \E p \in Procs :
        /\ Answered(p)
        /\ Document(p).t = "obj"
        /\ CatalogueValid(Document(p).o)
        /\ resolved[p].kind = "return"
        /\ resolved[p].value.action = "schedule_meeting"
        /\ Len(resolved[p].value["participants"]) = 2
        /\ resolved[p].value["platform"] = JStr(Txt("Zoom"))

-----------------------------------------------------------------------------
(* the number of times request p called the gateway, and whether it searched *)
GatewayCalls(p) ==
    Cardinality({i \in 1..Len(trace[p]) :
                    trace[p][i] \in {"generate", "generate_fail"}})

Searched(p) == Has(trace[p], "search") \/ Has(trace[p], "search_fail")

ChatEnded(p) == Processed(p) /\ structured_output[p].action = "general_chat"

(* C14, as stated: when resolution yields general_chat with reply r,
   process_message returns exactly {response: r} and the gateway is invoked
   exactly once in the whole request, with no synthesis and no search call. *)
C14_ChatPassthroughExact ==
    \A p \in Procs :
        ChatEnded(p) =>
            /\ outcome[p] = Returned([response |-> structured_output[p].response])
            /\ GatewayCalls(p) = 1
            /\ ~Searched(p)

(* C14, amended: when resolution yields general_chat with reply r,
   process_message returns {response: r} if the entry was written and
   {response: r, history_error: "Failed to save interaction: " + e} if the
   write failed with e; in both cases the gateway is invoked exactly once
   and there is no search call. *)
C14_ChatPassthrough ==
    \A p \in Procs :
        ChatEnded(p) =>
            /\ outcome[p].kind = "return"
            /\ outcome[p].value =
                  (IF Last(trace[p]) = "write"
                   THEN [response |-> structured_output[p].response]
                   ELSE [response |-> structured_output[p].response,
                         history_error |->
                            Txt("Failed to save interaction: ") \o DbError])
            /\ GatewayCalls(p) = 1
            /\ ~Searched(p)

(* a chat reply returned although the write of its entry failed *)
C14_Witness ==
    \E p \in Procs :
        /\ ChatEnded(p)
        /\ structured_output[p].response = Txt("Hello!")
        /\ Last(trace[p]) = "write_fail"
        /\ "history_error" \in DOMAIN outcome[p].value

-----------------------------------------------------------------------------
(* C15: whenever resolution yields the unknown variant, emitted by the model
   or produced by the malformed-output fallback, process_message returns
   a success-shaped Outcome whose response is
   "Sorry, I couldn't understand that. Reason: " + reason, with no error
   field, and the entry it appends to the store carries that response text. *)
SorryText(reason) ==
    Txt("Sorry, I couldn't understand that. Reason: ") \o reason

C15_UnknownIsSuccessShaped ==
    [][\A p \in Procs :
          (Ends(p) /\ structured_output[p].action = "unknown") =>
             /\ outcome'[p].kind = "return"
             /\ "error" \notin DOMAIN outcome'[p].value
             /\ "response" \in DOMAIN outcome'[p].value
             /\ outcome'[p].value["response"] =
                    SorryText(structured_output[p].reason)
             /\ store' # store =>
                    store' = Append(store,
                                Row(user_id[p], message[p],
                                    SorryText(structured_output[p].reason)))
      ]_vars

(* an unknown produced by the fallback for text that is not JSON, persisted *)
C15_Witness ==
    \E p \in Procs :
        /\ Processed(p)
        /\ structured_output[p].action = "unknown"
        /\ llm_text[p] = Txt("not json")
        /\ Last(trace[p]) = "write"
        /\ Last(store).response =
                SorryText(structured_output[p].reason)

-----------------------------------------------------------------------------
(* C16: when a query_rag action is dispatched and the search returns an
   empty list, the synthesis prompt has the sentence "No relevant information
   found in the knowledge base." as its context block, the gateway is still
   invoked for synthesis (a second gateway call with that prompt), and the
   text it returns becomes the handler's result {response: text}. *)
NoResultsSentence ==
    Txt("No relevant information found in the knowledge base.")

EmptySearch(p) ==
    /\ structured_output[p].action = "query_rag"
    /\ Has(trace[p], "search")
    /\ search_results[p] = <<>>

C16_EmptySearchStillSynthesizes ==
    \A p \in Procs :
        EmptySearch(p) =>
            /\ prompt[p].kind = "synthesis"
            /\ prompt[p].subject = structured_output[p].query
            /\ prompt[p].context = NoResultsSentence
            /\ pc[p] = "synthesize" => ENABLED Synthesize(p)
            /\ pc[p] \in {"persist", "done"} => GatewayCalls(p) = 2
            /\ (pc[p] = "persist" /\ Last(trace[p]) = "generate") =>
                    result[p] = [response |-> synth_text[p]]
            /\ (pc[p] = "done" /\ Has(trace[p], "write")
                 /\ ~Has(trace[p], "generate_fail")) =>
                    outcome[p] = Returned([response |-> synth_text[p]])

(* a question answered from an empty search *)
C16_Witness ==
    \E p \in Procs :
        /\ EmptySearch(p)
        /\ pc[p] = "done"
        /\ synth_text[p] = Txt("X is 42.")
        /\ outcome[p] = Returned([response |-> Txt("X is 42.")])

-----------------------------------------------------------------------------
(* the entry of the store a Turn of the history was made from, and the
   positions in the store of a user's `n` most recently created entries *)
TurnEntry(turn) == turn.content[2].n

EntriesOf(rows, uid) == {i \in 1..Len(rows) : rows[i].user_id = uid}

MostRecent(rows, uid, n) ==
    {i \in EntriesOf(rows, uid) :
        Cardinality({j \in EntriesOf(rows, uid) : j > i}) < n}

Fetched(p) == Has(trace[p], "fetch")

(* C17: for any store content, the history that process_message passes to
   the resolver has at most 10 Turns and is drawn only from the requesting
   user's 5 most recently created entries; older entries never contribute
   a Turn. *)
C17_HistoryWindow ==
    \A p \in Procs :
        Fetched(p) =>
            /\ Len(history[p]) <= 2 * HistoryLimit
            /\ \A i \in 1..Len(history[p]) :
                  TurnEntry(history[p][i]) \in
                      MostRecent(store, user_id[p], HistoryLimit)

-----------------------------------------------------------------------------
(* C18: get_conversation_history returns Turns oldest-first: all Turns of an
   earlier-created entry precede all Turns of a later-created entry, and
   within one entry the user Turn precedes the assistant Turn. *)
C18_OldestFirst ==
    \A p \in Procs :
        Fetched(p) =>
            \A i, j \in 1..Len(history[p]) :
                i < j =>
                    \/ TurnEntry(history[p][i]) < TurnEntry(history[p][j])
                    \/ /\ TurnEntry(history[p][i]) = TurnEntry(history[p][j])
                       /\ history[p][i].role = "user"
                       /\ history[p][j].role = "assistant"

(* a history of three entries of the user, the oldest and the newest with
   both of their Turns *)
C18_Witness ==
    \E p \in Procs :
        /\ Fetched(p)
        /\ Cardinality({TurnEntry(history[p][i]) : i \in 1..Len(history[p])}) = 3
        /\ Len(history[p]) >= 5
        /\ history[p][1].role = "user"
        /\ history[p][2].role = "assistant"
        /\ TurnEntry(history[p][1]) = TurnEntry(history[p][2])
        /\ TurnEntry(history[p][1]) < TurnEntry(history[p][Len(history[p])])

-----------------------------------------------------------------------------
(* C19: every entry that process_message can persist yields exactly two
   Turns when read back by get_conversation_history, a user Turn then an
   assistant Turn, so the returned history strictly alternates starting with
   a user Turn; this holds also when the stored response is the empty
   string. *)
Alternates(turns) ==
    \A i \in 1..Len(turns) :
        turns[i].role = (IF i % 2 = 1 THEN "user" ELSE "assistant")

C19_EntryYieldsTwoTurns ==
    /\ \A i \in 1..Len(store) :
          /\ Len(EntryTurns(store[i])) = 2
          /\ EntryTurns(store[i])[1].role = "user"
          /\ EntryTurns(store[i])[2].role = "assistant"
    /\ \A u \in Users :
          Alternates(get_conversation_history(store, u, HistoryLimit))

-----------------------------------------------------------------------------
(* C20: create_conversation_entry stores as response the Outcome's
   "response" field verbatim when the Outcome has one, and otherwise the
   JSON serialization of the whole Outcome object, so an error Outcome is
   stored as the serialized {error, details} mapping. *)
Writes(p) ==
    /\ pc[p] \in {"persist", "persist_error"}
    /\ pc'[p] = "done"
    /\ store' # store

Serialized(res) ==
    <<[k |-> "json", fmt |-> "canon",
       v |-> [t |-> "obj",
              o |-> [f \in DOMAIN res |-> [t |-> "str", s |-> res[f]]]]]>>

C20_StoredResponse ==
    [][\A p \in Procs :
          Writes(p) =>
             /\ Len(store') = Len(store) + 1
             /\ Last(store').response =
                    (IF "response" \in DOMAIN result[p]
                     THEN result[p]["response"]
                     ELSE Serialized(result[p]))
      ]_vars

(* an {error, details} Outcome whose serialization is the newest entry *)
C20_Witness ==
    \E p \in Procs :
        /\ pc[p] = "done"
        /\ Has(trace[p], "write")
        /\ ErrorShaped(result[p])
        /\ store # <<>>
        /\ Last(store).response = Serialized(result[p])
        /\ Last(store).message = message[p]

-----------------------------------------------------------------------------
(* C21: the store is append-only under process_message: in every step every
   entry stored before is still present at its place with unchanged user_id,
   message and response, and the only mutation is one entry added at the
   end. *)
C21_AppendOnly ==
    [][/\ Len(store') \in {Len(store), Len(store) + 1}
       /\ \A i \in 1..Len(store) :
             /\ store'[i].user_id = store[i].user_id
             /\ store'[i].message = store[i].message
             /\ store'[i].response = store[i].response
      ]_vars

(* both requests have written to a store that held an entry before *)
C21_Witness ==
    /\ \A p \in Procs : Has(trace[p], "write")
    /\ Len(store) >= 3
    /\ store[1] \in InitRows

-----------------------------------------------------------------------------
(* C22: every Outcome produced by dispatch or by the orchestrator's error
   paths has one of two shapes, {response} or {error, details} with both
   fields present; no handler path, the missing-key path of the RAG handler
   included, returns an error without details. *)
Produced(p) == pc[p] \in {"persist", "persist_error"}

C22_TwoOutcomeShapes ==
    \A p \in Procs :
        Produced(p) =>
            \/ DOMAIN result[p] = {"response"}
            \/ DOMAIN result[p] = {"error", "details"}

-----------------------------------------------------------------------------
(* C23: if the gateway never answers a generation call, the call is cut off
   by a timeout and treated as a generation failure, so process_message
   still eventually returns: a request that waits for the gateway always
   ends. *)
AwaitsGateway(p) == pc[p] \in {"resolve", "synthesize"}

C23_GatewayTimeoutReturns ==
    \A p \in Procs : AwaitsGateway(p) ~> (pc[p] = "done")

-----------------------------------------------------------------------------
(* C24: for a parsed JSON object the resolver validates against at most one
   catalogue entry, the one whose action tag equals the payload's action
   field: the payload is never accepted as a variant with another tag, and
   when validation against the matching entry fails the recorded validation
   errors name that entry alone (none when no entry matches). *)
TypeOfTag(tag) ==
    CHOOSE i \in 1..Len(possible_types) : ActionDefault(possible_types[i]) = tag

AttemptedTypes(o) ==
    IF TagOf(o) = "" THEN <<>> ELSE <<possible_types[TypeOfTag(TagOf(o))]>>

C24_OnlyMatchingEntryValidated ==
    \A p \in Procs :
        (Answered(p) /\ Document(p).t = "obj") =>
            /\ resolved[p].kind = "return"
            /\ resolved[p].value.action \in {TagOf(Document(p).o), "unknown"}
            /\ (/\ resolved[p].value.action = "unknown"
                /\ ~(/\ TagOf(Document(p).o) = "unknown"
                     /\ WellTyped(Document(p).o, "reason"))) =>
                    resolved[p].value.reason =
                        Txt("LLM output structure mismatch or validation failed. Errors: ")
                        \o <<ListRepr(AttemptedTypes(Document(p).o))>>

(* a general_chat payload that carries the field of query_rag instead of its
   own: validated as GeneralChatOutput only, and so unknown *)
C24_Witness ==
    \E p \in Procs :
        /\ Answered(p)
        /\ Document(p).t = "obj"
        /\ TagOf(Document(p).o) = "general_chat"
        /\ "query" \in DOMAIN Document(p).o
        /\ resolved[p].kind = "return"
        /\ resolved[p].value.action = "unknown"
        /\ resolved[p].value.reason[2] = ListRepr(<<"GeneralChatOutput">>)

-----------------------------------------------------------------------------
(* C25: for every JSON payload the resolver returns the same Action for the
   payload wrapped in a ```json ... ``` envelope, with optional whitespace
   around the markers, as for the bare payload; the leading and the trailing
   fence marker are removed before parsing. *)
Blanks == {<<>>, <<WS>>}

Envelopes(doc) ==
    { a \o <<FenceJson>> \o b \o doc \o c \o <<Fence>> \o d :
        a \in Blanks, b \in Blanks, c \in Blanks, d \in Blanks }

IsBare(text) == Len(text) = 1 /\ text[1].k = "json"

JsonPart(text) == SelectSeq(text, LAMBDA tok : tok.k = "json")

IsFenced(text) == IsBare(JsonPart(text)) /\ text \in Envelopes(JsonPart(text))

C25_FenceTransparent ==
    \A p \in Procs :
        resolved[p].kind = "return" =>
            /\ IsBare(llm_text[p]) =>
                  \A wrapped \in Envelopes(llm_text[p]) :
                      ParseIntent(wrapped) = resolved[p].value
            /\ IsFenced(llm_text[p]) =>
                  resolved[p].value = ParseIntent(JsonPart(llm_text[p]))

(* a fenced general_chat payload resolved to the chat reply *)
C25_Witness ==
    \E p \in Procs :
        /\ resolved[p].kind = "return"
        /\ IsFenced(llm_text[p])
        /\ resolved[p].value = [action |-> "general_chat",
                                response |-> Txt("Hello!")]

-----------------------------------------------------------------------------
(* C26: within one process_message call the external calls happen in the
   order history fetch, resolution generation, for query_rag only search
   then synthesis generation, history write; the history is fetched once and
   the same history is in both prompts; a generation call is issued at most
   once and never retried after a failure, so there are at most two gateway
   calls per message. *)
CallKind(ev) ==
    CASE ev \in {"fetch", "fetch_fail"} -> "fetch"
      [] ev \in {"generate", "generate_fail"} -> "generate"
      [] ev \in {"search", "search_fail"} -> "search"
      [] ev \in {"write", "write_fail"} -> "write"

CallOrders ==
    { <<"fetch", "generate", "write">>,
      <<"fetch", "generate", "search", "generate", "write">>,
      <<"fetch", "generate", "search", "write">> }

IsPrefix(sq, full) ==
    Len(sq) <= Len(full) /\ \A i \in 1..Len(sq) : sq[i] = full[i]

Failed(ev) == ev \in {"fetch_fail", "generate_fail", "search_fail"}

C26_CallOrder ==
    \A p \in Procs :
        /\ \E full \in CallOrders :
              IsPrefix([i \in 1..Len(trace[p]) |-> CallKind(trace[p][i])], full)
        /\ Searched(p) => structured_output[p].action = "query_rag"
        /\ GatewayCalls(p) <= 2
        /\ \A i \in 1..Len(trace[p]) :
              Failed(trace[p][i]) =>
                  \A j \in (i + 1)..Len(trace[p]) :
                      CallKind(trace[p][j]) = "write"
        /\ \A i \in 1..Len(trace[p]) :
              (trace[p][i] = "search" /\ i < Len(trace[p])) =>
                  CallKind(trace[p][i + 1]) = "generate"
        /\ prompt[p].kind # "none" =>
              prompt[p].history_str = HistoryStr(history[p])

(* a knowledge question answered over a non-empty history: all five calls *)
C26_Witness ==
    \E p \in Procs :
        /\ trace[p] = <<"fetch", "generate", "search", "generate", "write">>
        /\ history[p] # <<>>
        /\ prompt[p].kind = "synthesis"

-----------------------------------------------------------------------------
(* C27: with the email capability unconfigured a ConversationHandler can be
   constructed from an LLM alone, and a dispatched send_email action returns
   a success-shaped Outcome naming the recipient and the subject without the
   email capability's send operation being invoked; likewise for
   schedule_meeting with no calendar capability. *)
StubAnswered(p) ==
    /\ pc[p] = "persist"
    /\ structured_output[p].action \in {"send_email", "schedule_meeting"}

StubsAcknowledge ==
    \A p \in Procs :
        StubAnswered(p) =>
            /\ DOMAIN result[p] = {"response"}
            /\ trace[p] = <<"fetch", "generate">>
            /\ structured_output[p].action = "send_email" =>
                  result[p]["response"] =
                      Txt("OK. I will send an email to ")
                      \o structured_output[p].recipient
                      \o Txt(" with subject '")
                      \o structured_output[p].subject
                      \o Txt("'. (Actual sending pending)")

C27_HandlerBuiltFromLlmAlone ==
    /\ conversation_handler # HandlerUnset =>
            conversation_handler = HandlerReady
    /\ StubsAcknowledge

-----------------------------------------------------------------------------
(* C28: both gateway implementations accept generate(prompt, max_tokens=N)
   as the resolver (N = 500) and the RAG handler (N = 1000) issue it: the
   call reaches the provider, so a generation call fails only with the
   provider's own error and otherwise hands back the provider's text. *)
GenerateFailures(p) ==
    {i \in 1..Len(trace[p]) : trace[p][i] = "generate_fail"}

C28_GatewayAcceptsCeiling ==
    \A p \in Procs :
        /\ resolved[p].kind = "raise" => resolved[p].exc = GatewayError
        /\ (GenerateFailures(p) # {} /\ pc[p] \in {"persist", "persist_error"}) =>
              result[p]["details"] = GatewayError

-----------------------------------------------------------------------------
(* C29: history replay round trip: for every success-shaped Outcome
   {response: t} that process_message returned and persisted, the assistant
   Turn that get_conversation_history produces for that entry has content
   exactly t, also for a text t that itself looks like JSON. *)
PersistedResponse(p) ==
    /\ pc[p] = "done"
    /\ Has(trace[p], "write")
    /\ outcome[p].kind = "return"
    /\ DOMAIN outcome[p].value = {"response"}

C29_ReplayRoundTrip ==
    \A p \in Procs :
        (PersistedResponse(p) /\ Last(store).message = message[p]) =>
            LET turns == EntryTurns(Last(store))
            IN  /\ turns # <<>>
                /\ Last(turns).role = "assistant"
                /\ Last(turns).content = outcome[p].value["response"]

-----------------------------------------------------------------------------
(* C30: per-user isolation: the history process_message fetches for user u
   holds only Turns of entries whose user_id is u, and a call for user u
   leaves the history returned for every other user unchanged, in every
   interleaving of calls of different users. *)
TurnOfUser(turn, rows, uid) ==
    \E j \in EntriesOf(rows, uid) :
        \E k \in 1..Len(EntryTurns(rows[j])) : EntryTurns(rows[j])[k] = turn

Fetches(p) == pc[p] = "fetch" /\ pc'[p] = "resolve"

C30_UserIsolation ==
    [][\A p \in Procs :
          /\ Fetches(p) =>
                \A i \in 1..Len(history'[p]) :
                    TurnOfUser(history'[p][i], store, user_id[p])
          /\ Writes(p) =>
                \A other \in Users \ {user_id[p]} :
                    get_conversation_history(store', other, HistoryLimit) =
                        get_conversation_history(store, other, HistoryLimit)
      ]_vars

(* two users' requests have both written, one of them after fetching a
   non-empty history from a store that also held the other user's entries *)
C30_Witness ==
    /\ user_id["r1"] # user_id["r2"]
    /\ \A p \in Procs : Has(trace[p], "write")
    /\ \E p \in Procs :
          /\ history[p] # <<>>
          /\ store[1].user_id # user_id[p]

====
